---- MODULE Spec2Model ----
(***************************************************************************)
(* Model of DaxaSafeLoader (document_loaders/daxa.py) and of the metadata  *)
(* resolution utilities it calls (utilities/pebblo.py).                    *)
(*                                                                         *)
(* Python strings are sequences of tokens.  The tokens "/" and ":" are the *)
(* characters the code inspects; every other token stands for a run of     *)
(* ordinary characters (a file name, a bucket name, a sentinel word).      *)
(***************************************************************************)
EXTENDS Integers, Sequences, FiniteSets, TLC

VARIABLES
    ldr,            \* get_loader_full_path: the loader value passed in
    pathRes,        \* get_loader_full_path: the value returned / exception raised
    corpus,         \* the documents the wrapped loaders read from their source
    service,        \* the classifier service: "failing" when no request to it succeeds
    args,           \* constructor on its own: the <<app_id, owner>> passed in
    ctorRes,        \* constructor on its own: what the call did
    inst,           \* the DaxaSafeLoader objects constructed so far
    discovers,      \* the /app/discover POSTs attempted, one per object constructed
    calls,          \* the load() and lazy_load() calls made so far, with the
                    \* /loader/doc POSTs each has attempted
    discover_sent,  \* class attribute DaxaSafeLoader._discover_sent
    loader_sent     \* class attribute DaxaSafeLoader._loader_sent

vars == <<ldr, pathRes, corpus, service, args, ctorRes, inst, discovers, calls, discover_sent, loader_sent>>

(***************************************************************************)
(* Bounds                                                                  *)
(***************************************************************************)
NumInst == 2    \* wrapper objects constructed in one behaviour
MaxDocs == 2    \* documents a wrapped loader produces
MaxCalls == 2   \* load() and lazy_load() calls in one behaviour

(***************************************************************************)
(* Strings                                                                 *)
(***************************************************************************)
Slash == "/"
Colon == ":"
Scheme == <<Colon, Slash, Slash>>                       \* "://"
Path2(a, b) == a \o <<Slash>> \o b                      \* f"{a}/{b}"
Uri(scheme, a, b) == <<scheme>> \o Scheme \o a \o <<Slash>> \o b

\* "://" in path
HasScheme(path) ==
    \E k \in 1..(Len(path) - 2) :
        /\ path[k] = Colon
        /\ path[k + 1] = Slash
        /\ path[k + 2] = Slash

\* the process working directory, os.getcwd()
CwdSegs == << <<"w">> >>

\* path.split("/"): the segments between slashes
RECURSIVE SplitSegs(_, _, _)
SplitSegs(path, k, cur) ==
    IF k > Len(path) THEN <<cur>>
    ELSE IF path[k] = Slash THEN <<cur>> \o SplitSegs(path, k + 1, <<>>)
    ELSE SplitSegs(path, k + 1, Append(cur, path[k]))

\* normalisation of the segments against a stack of directories
RECURSIVE NormSegs(_, _, _)
NormSegs(segs, k, stack) ==
    IF k > Len(segs) THEN stack
    ELSE IF segs[k] = <<>> \/ segs[k] = <<".">> THEN NormSegs(segs, k + 1, stack)
    ELSE IF segs[k] = <<"..">>
         THEN NormSegs(segs, k + 1,
                       IF stack = <<>> THEN stack ELSE SubSeq(stack, 1, Len(stack) - 1))
    ELSE NormSegs(segs, k + 1, Append(stack, segs[k]))

RECURSIVE JoinSegs(_, _)
JoinSegs(stack, k) ==
    IF k > Len(stack) THEN <<>>
    ELSE <<Slash>> \o stack[k] \o JoinSegs(stack, k + 1)

\* str(pathlib.Path(path).resolve()) for a relative path (symbolic links aside)
PathResolve(path) ==
    LET stack == NormSegs(SplitSegs(path, 1, <<>>), 1, CwdSegs)
    IN  IF stack = <<>> THEN <<Slash>> ELSE JoinSegs(stack, 1)

Sentinels == { <<"unknown">>, <<"-">>, <<"in-memory">> }

\* mutant: the sentinels are resolved like any relative path
get_full_path_nosentinel(path) ==
    IF \/ path = <<>>
       \/ HasScheme(path)
       \/ path[1] = Slash
    THEN path
    ELSE PathResolve(path)

get_full_path(path) ==
    IF \/ path = <<>>
       \/ HasScheme(path)
       \/ path[1] = Slash
       \/ path \in Sentinels
    THEN path
    ELSE PathResolve(path)

(***************************************************************************)
(* Loader values                                                           *)
(*                                                                         *)
(* A loader value is its class, the keys of its __dict__, and the shape of *)
(* the attribute values: the value of attribute k has shape `shape` and    *)
(* mentions k, so that the values of two attributes differ.  `shape2` is   *)
(* the shape of the secondary attributes (blob, key, channel,              *)
(* database_id).                                                           *)
(***************************************************************************)
Classes == {"GCSFileLoader", "S3FileLoader", "DataFrameLoader", "NotionDBLoader",
            "TextLoader", "object"}
Attrs == {"bucket", "source", "channel", "path", "file_path", "web_paths"}
Shapes == {"empty", "dash", "unknown", "in-memory", "abs", "rel", "dotdot", "uri", "dir"}

ShapeVal(shape, k) ==
    CASE shape = "empty"     -> <<>>
      [] shape = "dash"      -> <<"-">>
      [] shape = "unknown"   -> <<"unknown">>
      [] shape = "in-memory" -> <<"in-memory">>
      [] shape = "abs"       -> <<Slash, "d", Slash, k>>
      [] shape = "rel"       -> <<k>>
      [] shape = "dotdot"    -> <<"..", Slash, k>>
      [] shape = "uri"       -> <<"h", Colon, Slash, Slash, k>>
      [] shape = "dir"       -> <<Slash, "d">>

IsBaseLoader(loader) == loader.cls # "object"
Attr(loader, k) == ShapeVal(loader.shape, k)                 \* loader.<k>
Attr2(loader, k) == ShapeVal(loader.shape2, k)
WebPaths(loader) == IF loader.webEmpty THEN <<>> ELSE <<Attr(loader, "web_paths")>>

Ok(v) == [ok |-> TRUE, val |-> v, exc |-> "none"]
Raise(e) == [ok |-> FALSE, val |-> <<>>, exc |-> e]
Pending == [ok |-> FALSE, val |-> <<>>, exc |-> "pending"]

\* the location chosen by the if/elif chain, before get_full_path
Location(loader) ==
    LET keys == loader.keys
    IN  IF "bucket" \in keys
        THEN IF loader.cls = "GCSFileLoader"
             THEN Ok(Uri("gc", Attr(loader, "bucket"), Attr2(loader, "blob")))
             ELSE IF loader.cls = "S3FileLoader"
             THEN Ok(Uri("s3", Attr(loader, "bucket"), Attr2(loader, "key")))
             ELSE Ok(<<"-">>)
        ELSE IF "source" \in keys
        THEN IF "channel" \in keys
             THEN Ok(Path2(Attr(loader, "source"), Attr2(loader, "channel")))
             ELSE Ok(Attr(loader, "source"))
        ELSE IF "path" \in keys THEN Ok(Attr(loader, "path"))
        ELSE IF "file_path" \in keys THEN Ok(Attr(loader, "file_path"))
        ELSE IF "web_paths" \in keys
        THEN IF WebPaths(loader) = <<>> THEN Raise("IndexError")
             ELSE Ok(WebPaths(loader)[1])
        ELSE IF loader.cls = "DataFrameLoader" THEN Ok(<<"in-memory">>)
        ELSE IF loader.cls = "NotionDBLoader"
        THEN Ok(<<"notiondb">> \o Scheme \o Attr2(loader, "database_id"))
        ELSE Ok(<<"-">>)

get_loader_full_path(loader) ==
    IF ~IsBaseLoader(loader) THEN Ok(<<"-">>)
    ELSE LET loc == Location(loader)
         IN  IF loc.ok THEN Ok(get_full_path(loc.val)) ELSE loc

LoaderInputs ==
    [cls : Classes, keys : SUBSET Attrs, shape : Shapes, shape2 : {"rel", "abs", "empty"},
     webEmpty : BOOLEAN, lazy : {TRUE}, documents : {<<>>}]

NoLoader == [cls |-> "object", keys |-> {}, shape |-> "empty", shape2 |-> "empty",
             webEmpty |-> FALSE, lazy |-> TRUE, documents |-> <<>>]

(***************************************************************************)
(* File system and documents                                               *)
(***************************************************************************)
DirD == <<Slash, "d">>
FileA == <<Slash, "d", Slash, "file_path">>
FileB == <<Slash, "d", Slash, "source">>
LinkC == <<Slash, "d", Slash, "lnk">>

\* regular files and symbolic links to files, with os.path.getsize of each
FsEntries == { [path |-> FileA, link |-> FALSE, size |-> 10],
               [path |-> FileB, link |-> FALSE, size |-> 20],
               [path |-> LinkC, link |-> TRUE, size |-> 5] }
FsDirs == { DirD }

isfile(path) == \E e \in FsEntries : e.path = path
isdir(path) == path \in FsDirs
IsUnder(dir, path) ==
    /\ Len(path) > Len(dir) + 1
    /\ SubSeq(path, 1, Len(dir)) = dir
    /\ path[Len(dir) + 1] = Slash

RECURSIVE SumSizes(_)
SumSizes(S) ==
    IF S = {} THEN 0
    ELSE LET e == CHOOSE x \in S : TRUE IN e.size + SumSizes(S \ {e})

SizeOk(n) == [ok |-> TRUE, size |-> n, exc |-> "none"]
SizeRaise(e) == [ok |-> FALSE, size |-> 0, exc |-> e]

\* `size` is bound in neither branch when the path is no file and no directory
get_source_size(source_path) ==
    IF isfile(source_path)
    THEN SizeOk((CHOOSE e \in FsEntries : e.path = source_path).size)
    ELSE IF isdir(source_path)
    THEN SizeOk(SumSizes({e \in FsEntries : IsUnder(source_path, e.path) /\ ~e.link}))
    ELSE SizeRaise("UnboundLocalError")

get_file_owner_from_path(file_path) ==
    IF isfile(file_path) \/ isdir(file_path) THEN "root" ELSE "unknown"

file_loader == {"JSONLoader", "S3FileLoader", "UnstructuredMarkdownLoader",
                "UnstructuredPDFLoader", "UnstructuredFileLoader", "UnstructuredJsonLoader",
                "PyPDFLoader", "GCSFileLoader", "AmazonTextractPDFLoader", "CSVLoader",
                "UnstructuredExcelLoader", "UnstructuredEmailLoader"}
dir_loader == {"DirectoryLoader", "S3DirLoader", "SlackDirectoryLoader",
               "PyPDFDirectoryLoader", "NotionDirectoryLoader"}
in_memory == {"DataFrameLoader"}
remote_db == {"NotionDBLoader", "GoogleDriveLoader"}

get_loader_type(loader) ==
    IF loader \in file_loader THEN "file"
    ELSE IF loader \in dir_loader THEN "dir"
    ELSE IF loader \in in_memory THEN "in-memory"
    ELSE IF loader \in remote_db THEN "remote_db"
    ELSE "unknown"

\* Documents of a wrapped loader: document k has content k; its metadata
\* source is a regular file, except that the source of the last document
\* may be a URL.
UrlSource == <<"h", Colon, Slash, Slash, "x">>
Document(k, bad) ==
    [page_content |-> k,
     source |-> IF k = bad THEN UrlSource ELSE IF k % 2 = 1 THEN FileA ELSE FileB,
     last_modified |-> "None"]
DocSeqs ==
    { [k \in 1..p[1] |-> Document(k, p[2])] :
          p \in { q \in (0..MaxDocs) \X (0..MaxDocs) : q[2] \in {0, q[1]} } }

Wrapped(cls, keys, shape, lazy, documents) ==
    [cls |-> cls, keys |-> keys, shape |-> shape, shape2 |-> "rel", webEmpty |-> FALSE,
     lazy |-> lazy, documents |-> documents]

\* the wrapped loaders of the wrapper model, reading the documents d: one per
\* kind of source path
MainLoaders(d) ==
    { Wrapped("CSVLoader", {"file_path"}, "abs", TRUE, d),
      Wrapped("DirectoryLoader", {"path"}, "dir", FALSE, d),
      Wrapped("TextLoader", {"source"}, "uri", TRUE, d),
      Wrapped("TextLoader", {"source"}, "unknown", TRUE, d),
      Wrapped("TextLoader", {}, "empty", TRUE, d),
      Wrapped("DataFrameLoader", {}, "empty", TRUE, d) }

(***************************************************************************)
(* Constructor arguments and HTTP outcomes                                 *)
(***************************************************************************)
PyNone == [t |-> "None", v |-> <<>>]
PyStr(s) == [t |-> "str", v |-> s]
PyInt(n) == [t |-> "int", v |-> <<n>>]
ArgValues == { PyNone, PyStr(<<>>), PyStr(<<"app">>), PyInt("0"), PyInt("7") }

\* the arguments of the wrapper model: one accepted value, one rejected
MainArgs == { PyStr(<<"app">>), PyNone }

Truthy(x) ==
    CASE x.t = "None" -> FALSE
      [] x.t = "str"  -> x.v # <<>>
      [] x.t = "int"  -> x.v # <<"0">>

\* mutant: only the type is checked
ValidArg_typeonly(x) == x.t = "str"

\* not (not x or not isinstance(x, str))
ValidArg(x) == ~(~Truthy(x) \/ ~(x.t = "str"))

\* what requests.post does: raise, or answer with a status and a body that
\* resp.json() can or cannot parse
Outcomes ==
    { [exc |-> "none", status |-> s, json |-> TRUE] : s \in {200, 502, 500} }
    \cup { [exc |-> "none", status |-> 200, json |-> FALSE] }
    \cup { [exc |-> e, status |-> 0, json |-> FALSE] :
              e \in {"RequestException", "Exception"} }

OkOutcome == [exc |-> "none", status |-> 200, json |-> TRUE]

\* the exception raised inside the try block, "none" when it runs to its end
TryRaises(o) ==
    IF o.exc # "none" THEN o.exc
    ELSE IF ~o.json THEN "Exception"
    ELSE "none"

\* a reporting call that failed
PostFailed(o) == o.exc # "none" \/ ~o.json \/ o.status # 200

\* what a POST can do, given the state of the service
Posts(srv) == IF srv = "failing" THEN {o \in Outcomes : PostFailed(o)} ELSE Outcomes

\* mutant: only requests.exceptions.RequestException is caught
Escapes_narrow(o) ==
    IF TryRaises(o) = "RequestException" THEN "none" ELSE TryRaises(o)

\* the exception that leaves the try/except of a reporting call
Escapes(o) ==
    IF TryRaises(o) = "RequestException" THEN "none"
    ELSE IF TryRaises(o) # "none" THEN "none"
    ELSE "none"

\* the exceptions a reporting call can let through, given the state of the service
PostEscapes(srv) == { Escapes(o) : o \in Posts(srv) }

\* _send_discover: whether set_discover_sent() is reached
DiscoverAcked(o) == TryRaises(o) = "none" /\ (o.status = 200 \/ o.status = 502)

(***************************************************************************)
(* DaxaSafeLoader                                                          *)
(*                                                                         *)
(* The caller is single-threaded.  The body of lazy_load() runs from one   *)
(* yield to the next without interruption and assigns self.docs before it  *)
(* reads it, so each next() is one step.  The caller ends or drops the     *)
(* generator of an object before it calls load() or lazy_load() on that    *)
(* object again; generators of different objects interleave freely.        *)
(***************************************************************************)
PLUGIN_VERSION == "0.1.0"

\* str(uuid.uuid4()): a value no wrapper object holds
uuid4(objects) ==
    CHOOSE u \in 1..(Len(objects) + 1) : \A k \in 1..Len(objects) : objects[k].load_id # u

\* _get_app_details: the App built at construction
App(self) ==
    [name |-> self.app_name, owner |-> self.owner, description |-> self.description,
     load_id |-> self.load_id, runtime |-> "runtime", framework |-> "langchain",
     plugin_version |-> PLUGIN_VERSION]

\* App.model_dump(exclude_unset=True) and
\* Doc.model_validate(payload).model_dump(exclude_unset=True): the payload as sent
model_dump(payload) == payload

\* the payload of _send_discover
DiscoverReport(self) ==
    model_dump(
        [kind |-> "discover", name |-> self.app.name, owner |-> self.app.owner,
         load_id |-> self.app.load_id, loading_end |-> "none", docs |-> <<>>])

\* one entry of the payload's docs list
DocRecord(doc) ==
    LET doc_source_path == get_full_path(doc.source)
    IN  [doc |-> doc.page_content,
         source_path |-> doc_source_path,
         last_modified |-> doc.last_modified,
         file_owner |-> get_file_owner_from_path(doc_source_path),
         source_size |-> get_source_size(doc_source_path).size]

\* the exception raised while the docs list is built, "none" if none is
DocsRaise(docs) ==
    IF \E k \in 1..Len(docs) : ~get_source_size(get_full_path(docs[k].source)).ok
    THEN "UnboundLocalError"
    ELSE "none"

\* mutant: every report is marked terminal
LoadingEnd_always(loading_end) == "true"

\* payload["loading_end"]
LoadingEnd(loading_end) == IF loading_end = TRUE THEN "true" ELSE "false"

\* mutant: the payload carries the identifier of the first object
PayloadLoadId_first(self, objects) == objects[1].load_id

\* payload["load_id"]
PayloadLoadId(self, objects) == self.load_id

\* mutant: the docs list of the payload is left empty
PayloadDocs_empty(docs) == <<>>

\* payload["docs"]
PayloadDocs(docs) == [k \in 1..Len(docs) |-> DocRecord(docs[k])]

\* the payload of _send_loader_doc
DocReport(self, objects, loading_end) ==
    model_dump(
        [kind |-> "doc", name |-> self.app_name, owner |-> self.owner,
         load_id |-> PayloadLoadId(self, objects), loading_end |-> LoadingEnd(loading_end),
         docs |-> PayloadDocs(self.docs)])

\* mutant: the document buffer is stored on the class
SetDocs_shared(objects, i, docs) ==
    [k \in 1..Len(objects) |-> [objects[k] EXCEPT !.docs = docs]]

\* self.docs = docs
SetDocs(objects, i, docs) == [objects EXCEPT ![i].docs = docs]

\* whether a generator of object i has been created and has not ended
Live(i) ==
    \E q \in 1..Len(calls) : calls[q].i = i /\ calls[q].st \in {"created", "suspended"}

\* mutant: the wrapped iterator is kept on the object and stays exhausted
NewIterator_kept(loader, exhausted) == IF exhausted THEN Len(loader.documents) ELSE 0

\* self.loader.lazy_load(): the position of a new iterator over the documents
NewIterator(loader, exhausted) == 0

\* __init__: the exception raised ("none" if none), whether source resolution
\* was reached, and the object built
Constructor(app_id, owner, loader, o, objects) ==
    LET path == get_loader_full_path(loader)
        size == get_source_size(path.val)
        self == [app_name |-> app_id.v,
                 load_id |-> uuid4(objects),
                 loader |-> loader,
                 owner |-> owner.v,
                 description |-> <<>>,
                 source_path |-> path.val,
                 source_owner |-> get_file_owner_from_path(path.val),
                 docs |-> <<>>,
                 source_type |-> get_loader_type(loader.cls),
                 source_size |-> size.size]
        obj == self @@ [app |-> App(self)]
        err == IF ~ValidArg(app_id) THEN "NameError"
               ELSE IF ~ValidArg(owner) THEN "NameError"
               ELSE IF ~path.ok THEN path.exc
               ELSE IF ~size.ok THEN size.exc
               ELSE Escapes(o)
    IN  [err |-> err,
         resolved |-> ValidArg(app_id) /\ ValidArg(owner),
         posted |-> ValidArg(app_id) /\ ValidArg(owner) /\ path.ok /\ size.ok,
         source_path |-> IF ValidArg(app_id) /\ ValidArg(owner) THEN path.val ELSE <<>>,
         obj |-> obj]

NoArgs == <<PyNone, PyNone>>
NoCtor == [done |-> FALSE, err |-> "none", resolved |-> FALSE, posted |-> FALSE,
           source_path |-> <<>>]

Init ==
    /\ ldr = NoLoader
    /\ pathRes = Pending
    /\ corpus \in DocSeqs
    /\ service \in {"any", "failing"}
    /\ args = NoArgs
    /\ ctorRes = NoCtor
    /\ inst = <<>>
    /\ discovers = <<>>
    /\ calls = <<>>
    /\ discover_sent = FALSE
    /\ loader_sent = FALSE

\* DaxaSafeLoader(langchain_loader, app_id, owner)
Construct ==
    \E app_id \in MainArgs, owner \in MainArgs, loader \in MainLoaders(corpus) :
        /\ Len(inst) < NumInst
        /\ IF Constructor(app_id, owner, loader, OkOutcome, inst).posted
           THEN \E o \in Posts(service) :
                    LET c == Constructor(app_id, owner, loader, o, inst)
                    IN  IF c.err # "none"
                        THEN UNCHANGED <<inst, discovers, discover_sent>>
                        ELSE /\ inst' = Append(inst, c.obj)
                             /\ discovers' = Append(discovers, DiscoverReport(c.obj))
                             /\ discover_sent' = (discover_sent \/ DiscoverAcked(o))
           ELSE UNCHANGED <<inst, discovers, discover_sent>>
        /\ UNCHANGED <<ldr, pathRes, corpus, service, args, ctorRes, calls, loader_sent>>

\* self.load()
Load ==
    \E i \in 1..Len(inst), esc \in PostEscapes(service) :
        /\ Len(calls) < MaxCalls
        /\ ~Live(i)
        /\ LET docs == inst[i].loader.documents
               objects == SetDocs(inst, i, docs)
               self == objects[i]
               err == DocsRaise(self.docs)
               call == [i |-> i, kind |-> "load", pos |-> 0, after |-> FALSE]
           IN  /\ inst' = objects
               /\ IF err # "none"
                  THEN /\ calls' = Append(calls, call @@
                                [st |-> "raised", err |-> err, out |-> <<>>, sent |-> <<>>])
                       /\ UNCHANGED loader_sent
                  ELSE IF esc # "none"
                  THEN /\ calls' = Append(calls, call @@
                                [st |-> "raised", err |-> esc, out |-> <<>>,
                                 sent |-> <<DocReport(self, objects, TRUE)>>])
                       /\ UNCHANGED loader_sent
                  ELSE /\ calls' = Append(calls, call @@
                                [st |-> "returned", err |-> "none", out |-> self.docs,
                                 sent |-> <<DocReport(self, objects, TRUE)>>])
                       /\ loader_sent' = TRUE
        /\ UNCHANGED <<ldr, pathRes, corpus, service, args, ctorRes, discovers, discover_sent>>

\* self.lazy_load(): a generator object; its body has not started
LazyLoad ==
    \E i \in 1..Len(inst) :
        /\ Len(calls) < MaxCalls
        /\ ~Live(i)
        /\ calls' = Append(calls,
                [i |-> i, kind |-> "lazy", pos |-> 0, st |-> "created", err |-> "none",
                 out |-> <<>>, sent |-> <<>>,
                 after |-> \E r \in 1..Len(calls) :
                               /\ calls[r].i = i
                               /\ calls[r].kind = "lazy"
                               /\ calls[r].st = "done"])
        /\ UNCHANGED <<ldr, pathRes, corpus, service, args, ctorRes, inst, discovers,
                       discover_sent, loader_sent>>

\* next(generator): the body runs to its next yield, to its end or to an exception
NextDoc ==
    \E r \in 1..Len(calls), esc \in PostEscapes(service) :
        /\ calls[r].kind = "lazy"
        /\ calls[r].st \in {"created", "suspended"}
        /\ LET i == calls[r].i
               loader == inst[i].loader
               pos == IF calls[r].st = "created" THEN NewIterator(loader, calls[r].after)
                      ELSE calls[r].pos
           IN  IF calls[r].st = "created" /\ ~loader.lazy
               THEN /\ calls' = [calls EXCEPT ![r].st = "raised",
                                              ![r].err = "NotImplementedError"]
                    /\ UNCHANGED <<inst, loader_sent>>
               ELSE IF pos >= Len(loader.documents)
               THEN LET objects == SetDocs(inst, i, <<>>)
                        report == DocReport(objects[i], objects, TRUE)
                    IN  /\ inst' = objects
                        /\ IF esc # "none"
                           THEN /\ calls' = [calls EXCEPT ![r].st = "raised",
                                                          ![r].err = esc,
                                                          ![r].pos = pos,
                                                          ![r].sent = Append(@, report)]
                                /\ UNCHANGED loader_sent
                           ELSE /\ calls' = [calls EXCEPT ![r].st = "done",
                                                          ![r].pos = pos,
                                                          ![r].sent = Append(@, report)]
                                /\ loader_sent' = TRUE
               ELSE LET doc == loader.documents[pos + 1]
                        objects == SetDocs(inst, i, <<doc>>)
                        report == DocReport(objects[i], objects, FALSE)
                        err == DocsRaise(objects[i].docs)
                    IN  /\ inst' = objects
                        /\ UNCHANGED loader_sent
                        /\ IF err # "none"
                           THEN calls' = [calls EXCEPT ![r].st = "raised",
                                                       ![r].err = err,
                                                       ![r].pos = pos + 1]
                           ELSE IF esc # "none"
                           THEN calls' = [calls EXCEPT ![r].st = "raised",
                                                       ![r].err = esc,
                                                       ![r].pos = pos + 1,
                                                       ![r].sent = Append(@, report)]
                           ELSE calls' = [calls EXCEPT ![r].st = "suspended",
                                                       ![r].pos = pos + 1,
                                                       ![r].sent = Append(@, report),
                                                       ![r].out = Append(@, objects[i].docs)]
        /\ UNCHANGED <<ldr, pathRes, corpus, service, args, ctorRes, discovers, discover_sent>>

\* the consumer drops the generator before it has ended
Close ==
    \E r \in 1..Len(calls) :
        /\ calls[r].kind = "lazy"
        /\ calls[r].st \in {"created", "suspended"}
        /\ calls' = [calls EXCEPT ![r].st = "closed"]
        /\ UNCHANGED <<ldr, pathRes, corpus, service, args, ctorRes, inst, discovers, discover_sent,
                       loader_sent>>

Next == Construct \/ Load \/ LazyLoad \/ NextDoc \/ Close

Spec == Init /\ [][Next]_vars

(***************************************************************************)
(* get_loader_full_path on its own: every loader value of LoaderInputs     *)
(***************************************************************************)
InitPath ==
    /\ ldr \in LoaderInputs
    /\ pathRes = Pending
    /\ corpus = <<>>
    /\ service = "any"
    /\ args = NoArgs
    /\ ctorRes = NoCtor
    /\ inst = <<>>
    /\ discovers = <<>>
    /\ calls = <<>>
    /\ discover_sent = FALSE
    /\ loader_sent = FALSE

ResolvePath ==
    /\ pathRes = Pending
    /\ pathRes' = get_loader_full_path(ldr)
    /\ UNCHANGED <<ldr, corpus, service, args, ctorRes, inst, discovers, calls, discover_sent, loader_sent>>

NextPath == ResolvePath

SpecPath == InitPath /\ [][NextPath]_vars

(***************************************************************************)
(* The constructor on its own: every pair of arguments, over loaders of    *)
(* every kind of source path                                               *)
(***************************************************************************)
CtorLoaders ==
    { l \in LoaderInputs :
        /\ l.keys \in { {}, {"source"}, {"path"}, {"file_path"}, {"web_paths"} }
        /\ l.shape2 = "rel" }

InitCtor ==
    /\ ldr \in CtorLoaders
    /\ pathRes = Pending
    /\ corpus = <<>>
    /\ service = "any"
    /\ args \in ArgValues \X ArgValues
    /\ ctorRes = NoCtor
    /\ inst = <<>>
    /\ discovers = <<>>
    /\ calls = <<>>
    /\ discover_sent = FALSE
    /\ loader_sent = FALSE

CallConstructor ==
    \E o \in Outcomes :
        /\ ~ctorRes.done
        /\ LET c == Constructor(args[1], args[2], ldr, o, inst)
           IN  /\ ctorRes' = [done |-> TRUE, err |-> c.err, resolved |-> c.resolved,
                              posted |-> c.posted, source_path |-> c.source_path]
               /\ IF c.err # "none"
                  THEN UNCHANGED <<inst, discovers, discover_sent>>
                  ELSE /\ inst' = Append(inst, c.obj)
                       /\ discovers' = Append(discovers, DiscoverReport(c.obj))
                       /\ discover_sent' = (discover_sent \/ DiscoverAcked(o))
        /\ UNCHANGED <<ldr, pathRes, corpus, service, args, calls, loader_sent>>

NextCtor == CallConstructor

SpecCtor == InitCtor /\ [][NextCtor]_vars

(***************************************************************************)
(* Claims                                                                  *)
(***************************************************************************)
Range(f) == { f[k] : k \in DOMAIN f }
Batches(docs) == [k \in 1..Len(docs) |-> <<docs[k]>>]
Documents(r) == inst[calls[r].i].loader.documents
LazyCalls == { r \in 1..Len(calls) : calls[r].kind = "lazy" }
LoadCalls == { r \in 1..Len(calls) : calls[r].kind = "load" }
HttpErrors == { "RequestException", "Exception" }

\* the record the payload is to carry for a document whose source is a file
RecordOf(rec, doc) ==
    /\ rec.doc = doc.page_content
    /\ rec.source_path = doc.source
    /\ rec.last_modified = doc.last_modified

C2_LazyLoadYieldsEveryDocument ==
    \A r \in LazyCalls :
        (inst[calls[r].i].loader.lazy /\ calls[r].st \in {"done", "raised"}) =>
            /\ calls[r].st = "done"
            /\ calls[r].out = Batches(Documents(r))
            /\ Len(calls[r].sent) = Len(Documents(r)) + 1
            /\ \A k \in 1..Len(Documents(r)) :
                    /\ calls[r].sent[k].loading_end = "false"
                    /\ Len(calls[r].sent[k].docs) = 1
                    /\ RecordOf(calls[r].sent[k].docs[1], Documents(r)[k])
            /\ calls[r].sent[Len(calls[r].sent)].loading_end = "true"
            /\ calls[r].sent[Len(calls[r].sent)].docs = <<>>

IsNonEmptyString(x) == x.t = "str" /\ x.v # <<>>

\* C4: a construction with non-empty string app_id and owner, whose source
\* path has been resolved, has raised no error, whatever the source path is.
C4_ConstructionSucceeds ==
    (/\ ctorRes.done
     /\ IsNonEmptyString(args[1])
     /\ IsNonEmptyString(args[2])
     /\ get_loader_full_path(ldr).ok) => ctorRes.err = "none"

\* C5: a construction whose app_id or owner is None, empty or not a string has
\* failed with NameError, before the source was resolved and before any report
\* was attempted: no object exists, and no discover report was sent.
C5_InvalidArgumentsRejected ==
    (ctorRes.done /\ (~IsNonEmptyString(args[1]) \/ ~IsNonEmptyString(args[2]))) =>
        /\ ctorRes.err = "NameError"
        /\ ~ctorRes.resolved
        /\ ~ctorRes.posted
        /\ inst = <<>>
        /\ discovers = <<>>
        /\ ~discover_sent

C5_Witness ==
    /\ ctorRes.done
    /\ ctorRes.err = "NameError"
    /\ args[1] = PyStr(<<"app">>)
    /\ args[2] = PyInt("7")
    /\ get_source_size(get_loader_full_path(ldr).val).ok

\* C6: the load_id of an object is the one its discover report carried at
\* construction, every report of a load() or lazy_load() on the object carries
\* it, and two objects never have the same one.
C6_LoadIdCorrelatesReports ==
    /\ Len(discovers) = Len(inst)
    /\ \A i \in 1..Len(inst) :
            /\ discovers[i].load_id = inst[i].load_id
            /\ inst[i].app.load_id = inst[i].load_id
    /\ \A r \in 1..Len(calls) : \A k \in 1..Len(calls[r].sent) :
            calls[r].sent[k].load_id = discovers[calls[r].i].load_id
    /\ \A i \in 1..Len(inst) : \A j \in 1..Len(inst) :
            i # j => discovers[i].load_id # discovers[j].load_id

C6_Witness ==
    /\ Len(inst) = 2
    /\ \E r \in LoadCalls : calls[r].i = 1 /\ calls[r].sent # <<>>
    /\ \E r \in LazyCalls : calls[r].i = 2 /\ Len(calls[r].sent) >= 2

FirstAttr(l) ==
    IF "bucket" \in l.keys THEN "bucket"
    ELSE IF "source" \in l.keys THEN "source"
    ELSE IF "path" \in l.keys THEN "path"
    ELSE IF "file_path" \in l.keys THEN "file_path"
    ELSE IF "web_paths" \in l.keys THEN "web_paths"
    ELSE "none"

\* the location the claim says is picked
ClaimedLocation(l) ==
    CASE ~IsBaseLoader(l) -> <<"-">>
      [] IsBaseLoader(l) /\ FirstAttr(l) = "bucket" ->
            IF l.cls = "GCSFileLoader"
            THEN <<"gc", Colon, Slash, Slash>> \o Attr(l, "bucket") \o <<Slash>> \o Attr2(l, "blob")
            ELSE IF l.cls = "S3FileLoader"
            THEN <<"s3", Colon, Slash, Slash>> \o Attr(l, "bucket") \o <<Slash>> \o Attr2(l, "key")
            ELSE <<"-">>
      [] IsBaseLoader(l) /\ FirstAttr(l) = "source" ->
            IF "channel" \in l.keys
            THEN Attr(l, "source") \o <<Slash>> \o Attr2(l, "channel")
            ELSE Attr(l, "source")
      [] IsBaseLoader(l) /\ FirstAttr(l) \in {"path", "file_path"} -> Attr(l, FirstAttr(l))
      [] IsBaseLoader(l) /\ FirstAttr(l) = "web_paths" ->
            IF l.webEmpty THEN <<>> ELSE Attr(l, "web_paths")
      [] IsBaseLoader(l) /\ FirstAttr(l) = "none" ->
            IF l.cls = "DataFrameLoader" THEN <<"in-memory">>
            ELSE IF l.cls = "NotionDBLoader"
            THEN <<"notiondb", Colon, Slash, Slash>> \o Attr2(l, "database_id")
            ELSE <<"-">>

NoWebPath(l) == IsBaseLoader(l) /\ FirstAttr(l) = "web_paths" /\ l.webEmpty
IsAbsolute(path) == path # <<>> /\ path[1] = Slash
PassesThrough(path) == IsAbsolute(path) \/ HasScheme(path) \/ path \in Sentinels

\* C8 as claimed: the result is the location picked, unchanged when it is
\* absolute, contains "://" or is one of "unknown", "-", "in-memory", and
\* otherwise resolved to an absolute path.
C8_LocationResolved ==
    (pathRes # Pending /\ ~NoWebPath(ldr)) =>
        /\ pathRes.ok
        /\ IF PassesThrough(ClaimedLocation(ldr))
           THEN pathRes.val = ClaimedLocation(ldr)
           ELSE IsAbsolute(pathRes.val) /\ pathRes.val = PathResolve(ClaimedLocation(ldr))

\* C8 as amended: as claimed, except that an empty location is returned
\* unchanged too, and that an empty web_paths raises IndexError.
C8_LocationResolvedUnlessEmpty ==
    pathRes # Pending =>
        IF NoWebPath(ldr)
        THEN ~pathRes.ok /\ pathRes.exc = "IndexError"
        ELSE /\ pathRes.ok
             /\ IF ClaimedLocation(ldr) = <<>> \/ PassesThrough(ClaimedLocation(ldr))
                THEN pathRes.val = ClaimedLocation(ldr)
                ELSE /\ IsAbsolute(pathRes.val)
                     /\ pathRes.val = PathResolve(ClaimedLocation(ldr))

C8_Witness ==
    /\ pathRes.ok
    /\ ldr.cls = "TextLoader"
    /\ ldr.keys = {"source", "channel", "path", "web_paths"}
    /\ ldr.shape = "dotdot"
    /\ pathRes.val = <<Slash, "source", Slash, "channel">>

\* the step is a construction of object a, or a call on it, or a next() or a
\* drop of one of its generators
ActsOn(a) ==
    \/ Len(inst') > Len(inst) /\ a = Len(inst')
    \/ \E r \in 1..Len(calls') :
            /\ calls'[r].i = a
            /\ r > Len(calls) \/ calls'[r] # calls[r]

\* C9 as claimed: a step on object A leaves everything observable through
\* another object B unchanged: its fields, its discover report, and its
\* discover-sent and loader-sent flags.
C9_NothingShared ==
    [][\A a \in 1..Len(inst') : \A b \in 1..Len(inst) :
            (a # b /\ ActsOn(a)) =>
                /\ inst'[b] = inst[b]
                /\ discovers'[b] = discovers[b]
                /\ discover_sent' = discover_sent
                /\ loader_sent' = loader_sent]_vars

\* C9 as amended: a step on object A leaves the fields (descriptors and
\* document buffer) and the discover report of another object B unchanged; the
\* discover-sent and loader-sent flags are shared by all objects: the step may
\* set them, and never clears them.
C9_NoInstanceStateShared ==
    [][\A a \in 1..Len(inst') : \A b \in 1..Len(inst) :
            (a # b /\ ActsOn(a)) =>
                /\ inst'[b] = inst[b]
                /\ discovers'[b] = discovers[b]
                /\ discover_sent => discover_sent'
                /\ loader_sent => loader_sent']_vars

C9_Witness ==
    /\ Len(inst) = 2
    /\ inst[1].docs # <<>>
    /\ inst[2].docs = <<>>
    /\ loader_sent
    /\ \A r \in 1..Len(calls) : calls[r].i = 1

\* C10: in the reports of one lazy_load(), a report with loading_end "true"
\* comes after one report for every document of the wrapped iterator and is
\* the last one, every other report has loading_end "false", and a generator
\* dropped before the iterator was exhausted has attempted no report with
\* loading_end "true".
C10_FinalReportOnlyAtExhaustion ==
    \A r \in LazyCalls :
        /\ \A k \in 1..Len(calls[r].sent) :
                IF calls[r].sent[k].loading_end = "true"
                THEN /\ k = Len(calls[r].sent)
                     /\ k = Len(Documents(r)) + 1
                     /\ calls[r].st \in {"done", "raised"}
                ELSE /\ calls[r].sent[k].loading_end = "false"
                     /\ k <= Len(Documents(r))
        /\ calls[r].st = "closed" =>
                \A k \in 1..Len(calls[r].sent) : calls[r].sent[k].loading_end = "false"

C10_Witness ==
    /\ \E r \in LazyCalls : calls[r].st = "closed" /\ Len(calls[r].sent) >= 1
    /\ \E r \in LazyCalls : calls[r].st = "done" /\ Len(calls[r].sent) >= 3

====
